---- MODULE Spec2Model ----
(***************************************************************************)
(* A model of src/cargo.rs of cargo-mutants: the supervision of one cargo *)
(* subprocess (run_cargo), the construction of its argument vector        *)
(* (cargo_argv), the computation of CARGO_ENCODED_RUSTFLAGS (rustflags)   *)
(* and the discovery of the top source files of a workspace               *)
(* (cargo_root_files, direct_package_sources, should_mutate_target).      *)
(***************************************************************************)
EXTENDS Naturals, Integers, Sequences, FiniteSets, TLC

VARIABLES
    pc,              \* where run_cargo is: "idle", "start", "poll", "log", "check", "done"
    child,           \* the cargo child process: [state, status]
    interrupted,     \* the process-wide flag read by check_interrupted()
    timeout,         \* run_cargo's timeout argument, in milliseconds
    elapsed,         \* milliseconds slept so far (start.elapsed())
    process_status,  \* the local process_status of run_cargo
    log,             \* messages run_cargo appended to log_file
    result,          \* the value run_cargo returned
    polled,          \* history: every value child.poll() returned, in order
    flagAt,          \* history: where run_cargo and the child were when the flag was set
    call,            \* the arguments / environment of the pure function last called
    argv,            \* the vector cargo_argv returned
    flags,           \* the string rustflags() returned
    sources,         \* what direct_package_sources returned, one entry per package
    files            \* what cargo_root_files returned

vars == <<pc, child, interrupted, timeout, elapsed, process_status, log, result,
          polled, flagAt, call, argv, flags, sources, files>>

pureVars == <<call, argv, flags, sources, files>>

(***************************************************************************)
(* Bounds                                                                  *)
(***************************************************************************)
MaxTimeout == 2

MaxExitCode == 1

MaxArgs == 2

MaxStr == 3

MaxPackages == 2

MaxTargets == 2

\* const WAIT_POLL_INTERVAL: Duration = Duration::from_millis(50);
WAIT_POLL_INTERVAL == 50

(***************************************************************************)
(* ProcessStatus and the values around it                                  *)
(***************************************************************************)
NoStatus == [kind |-> "None", val |-> 0]

Exited(code) == [kind |-> "Exited", val |-> code]

Signalled(sig) == [kind |-> "Signalled", val |-> sig]

TimedOut == [kind |-> "TimedOut", val |-> 0]

ExitStatuses == {Exited(c) : c \in 0..MaxExitCode} \cup {Signalled(9)}

Pending == [tag |-> "Pending", status |-> NoStatus, err |-> ""]

Ok(st) == [tag |-> "Ok", status |-> st, err |-> ""]

Err(e) == [tag |-> "Err", status |-> NoStatus, err |-> e]

PollNone == [tag |-> "None", status |-> NoStatus, err |-> ""]

PollSome(st) == [tag |-> "Some", status |-> st, err |-> ""]

NoChild == [state |-> "none", status |-> NoStatus]

NeverSet == [pc |-> "never", child |-> "none"]

(***************************************************************************)
(* check_interrupted(): an error when the process-wide flag is set.        *)
(***************************************************************************)
check_interrupted(flag) == IF flag THEN Err("Interrupted") ELSE Ok(NoStatus)

(***************************************************************************)
(* Process::poll(): the values it may return, and the state of the child   *)
(* afterwards.  A child that ran past the timeout is terminated and        *)
(* reported as timed out; a running child is terminated when the flag is   *)
(* set; a child that exited is reported with its status; any call may fail.*)
(***************************************************************************)
PollOutcomes ==
    LET io == {[ret |-> Err("Io"), child |-> child]}
        killed == [state |-> "exited", status |-> Signalled(15)]
    IN  io \cup
        IF child.state = "exited"
        THEN {[ret |-> PollSome(child.status), child |-> child]}
             \cup (IF interrupted THEN {[ret |-> Err("Interrupted"), child |-> child]} ELSE {})
        ELSE IF elapsed >= timeout
        THEN {[ret |-> PollSome(TimedOut), child |-> killed]}
        ELSE IF interrupted
        THEN {[ret |-> Err("Interrupted"), child |-> killed],
              [ret |-> PollSome(Signalled(15)), child |-> killed]}
        ELSE {[ret |-> PollNone, child |-> child]}

(***************************************************************************)
(* run_cargo, one action per step between two points where the child or    *)
(* the flag can change.                                                    *)
(***************************************************************************)
\* let mut child = Process::start(...)?;
StartStep ==
    /\ pc = "start"
    /\ \/ /\ child' = [state |-> "running", status |-> NoStatus]
          /\ pc' = "poll"
          /\ UNCHANGED result
       \/ /\ result' = Err("Start")
          /\ pc' = "done"
          /\ UNCHANGED child
    /\ UNCHANGED <<interrupted, timeout, elapsed, process_status, log, polled, flagAt>>
    /\ UNCHANGED pureVars

\* one iteration of: loop { if let Some(s) = child.poll()? { break s } else { tick; sleep } }
PollStep ==
    /\ pc = "poll"
    /\ \E o \in PollOutcomes :
          /\ child' = o.child
          /\ polled' = Append(polled, o.ret)
          /\ IF o.ret.tag = "Err"
             THEN /\ result' = o.ret
                  /\ pc' = "done"
                  /\ UNCHANGED <<process_status, elapsed>>
             ELSE IF o.ret.tag = "Some"
             THEN /\ process_status' = o.ret.status
                  /\ pc' = "log"
                  /\ UNCHANGED <<result, elapsed>>
             ELSE /\ elapsed' = elapsed + WAIT_POLL_INTERVAL
                  /\ UNCHANGED <<pc, process_status, result>>
    /\ UNCHANGED <<interrupted, timeout, log, flagAt>>
    /\ UNCHANGED pureVars

\* a variant that looks at the flag before writing the message
LogStepUnlessInterrupted ==
    /\ pc = "log"
    /\ log' = IF interrupted THEN log
              ELSE Append(log, [status |-> process_status, elapsed |-> elapsed])
    /\ pc' = "check"
    /\ UNCHANGED <<child, interrupted, timeout, elapsed, process_status, result, polled, flagAt>>
    /\ UNCHANGED pureVars

\* log_file.message(&format!("cargo result: {:?} in {:.3}s", ...));
LogStep ==
    /\ pc = "log"
    /\ log' = Append(log, [status |-> process_status, elapsed |-> elapsed])
    /\ pc' = "check"
    /\ UNCHANGED <<child, interrupted, timeout, elapsed, process_status, result, polled, flagAt>>
    /\ UNCHANGED pureVars

\* a variant without the check_interrupted()? line
CheckStepIgnoresFlag ==
    /\ pc = "check"
    /\ result' = Ok(process_status)
    /\ pc' = "done"
    /\ UNCHANGED <<child, interrupted, timeout, elapsed, process_status, log, polled, flagAt>>
    /\ UNCHANGED pureVars

\* a variant in which a child that exited with code 0 is reported whatever the flag
CheckStepSuccessWins ==
    /\ pc = "check"
    /\ result' = IF process_status # Exited(0) /\ check_interrupted(interrupted).tag = "Err"
                 THEN check_interrupted(interrupted)
                 ELSE Ok(process_status)
    /\ pc' = "done"
    /\ UNCHANGED <<child, interrupted, timeout, elapsed, process_status, log, polled, flagAt>>
    /\ UNCHANGED pureVars

\* a variant that turns a timeout into an error
CheckStepTimeoutIsError ==
    /\ pc = "check"
    /\ result' = IF check_interrupted(interrupted).tag = "Err"
                 THEN check_interrupted(interrupted)
                 ELSE IF process_status = TimedOut THEN Err("Timeout")
                 ELSE Ok(process_status)
    /\ pc' = "done"
    /\ UNCHANGED <<child, interrupted, timeout, elapsed, process_status, log, polled, flagAt>>
    /\ UNCHANGED pureVars

\* check_interrupted()?; Ok(process_status)
CheckStep ==
    /\ pc = "check"
    /\ result' = IF check_interrupted(interrupted).tag = "Err"
                 THEN check_interrupted(interrupted)
                 ELSE Ok(process_status)
    /\ pc' = "done"
    /\ UNCHANGED <<child, interrupted, timeout, elapsed, process_status, log, polled, flagAt>>
    /\ UNCHANGED pureVars

\* the cargo child exits by itself, or is killed by a signal
ChildExit ==
    /\ pc \in {"poll", "log", "check"}
    /\ child.state = "running"
    /\ \E st \in ExitStatuses : child' = [state |-> "exited", status |-> st]
    /\ UNCHANGED <<pc, interrupted, timeout, elapsed, process_status, log, result, polled, flagAt>>
    /\ UNCHANGED pureVars

\* a signal handler sets the process-wide flag; nothing clears it
SetInterrupt ==
    /\ pc \in {"start", "poll", "log", "check"}
    /\ ~interrupted
    /\ interrupted' = TRUE
    /\ flagAt' = [pc |-> pc, child |-> child.state]
    /\ UNCHANGED <<pc, child, timeout, elapsed, process_status, log, result, polled>>
    /\ UNCHANGED pureVars

PureIdle ==
    /\ call = [fn |-> "none"]
    /\ argv = <<>>
    /\ flags = <<>>
    /\ sources = <<>>
    /\ files = [tag |-> "Pending", list |-> <<>>, err |-> ""]

Init ==
    /\ pc = "start"
    /\ child = NoChild
    /\ interrupted = FALSE
    /\ timeout \in {k * WAIT_POLL_INTERVAL : k \in 0..MaxTimeout}
    /\ elapsed = 0
    /\ process_status = NoStatus
    /\ log = <<>>
    /\ result = Pending
    /\ polled = <<>>
    /\ flagAt = NeverSet
    /\ PureIdle

Next ==
    \/ StartStep
    \/ PollStep
    \/ LogStep
    \/ CheckStep
    \/ ChildExit
    \/ SetInterrupt

Spec == Init /\ [][Next]_vars

\* the supervising thread keeps running; the child and the signal need not act
LiveSpec == Spec /\ WF_vars(StartStep) /\ WF_vars(PollStep) /\ WF_vars(LogStep) /\ WF_vars(CheckStep)

(***************************************************************************)
(* The state of run_cargo while one of the other functions is examined.    *)
(***************************************************************************)
RunIdle ==
    /\ pc = "idle"
    /\ child = NoChild
    /\ timeout = 0
    /\ elapsed = 0
    /\ process_status = NoStatus
    /\ log = <<>>
    /\ result = Pending
    /\ polled = <<>>
    /\ flagAt = NeverSet

None == [some |-> FALSE, val |-> ""]

Some(v) == [some |-> TRUE, val |-> v]

Range(s) == {s[i] : i \in 1..Len(s)}

SeqsUpTo(S, n) == UNION {[1..k -> S] : k \in 0..n}

(***************************************************************************)
(* cargo_argv                                                              *)
(***************************************************************************)
Phases == {"Check", "Build", "Test"}

\* Phase::name()
PhaseName(phase) ==
    CASE phase = "Check" -> "check"
      [] phase = "Build" -> "build"
      [] phase = "Test" -> "test"

\* env::var("CARGO").unwrap_or_else(|_| "cargo".to_owned())
cargo_bin(cargo_env) == IF cargo_env.some THEN cargo_env.val ELSE "cargo"

\* a variant that appends the test arguments in every phase
cargo_argv_test_args_always(package_name, phase, options, cargo_env) ==
    LET a0 == <<cargo_bin(cargo_env), PhaseName(phase)>>
        a1 == IF phase = "Check" \/ phase = "Build" THEN Append(a0, "--tests") ELSE a0
        a2 == IF package_name.some
              THEN Append(Append(a1, "--package"), package_name.val)
              ELSE Append(a1, "--workspace")
        a3 == a2 \o options.additional_cargo_args
    IN  a3 \o options.additional_cargo_test_args

\* a variant that has lost the else of the package branch
cargo_argv_both_scopes(package_name, phase, options, cargo_env) ==
    LET a0 == <<cargo_bin(cargo_env), PhaseName(phase)>>
        a1 == IF phase = "Check" \/ phase = "Build" THEN Append(a0, "--tests") ELSE a0
        a2 == IF package_name.some
              THEN Append(Append(Append(a1, "--package"), package_name.val), "--workspace")
              ELSE Append(a1, "--workspace")
        a3 == a2 \o options.additional_cargo_args
    IN  IF phase = "Test" THEN a3 \o options.additional_cargo_test_args ELSE a3

cargo_argv(package_name, phase, options, cargo_env) ==
    LET a0 == <<cargo_bin(cargo_env), PhaseName(phase)>>
        a1 == IF phase = "Check" \/ phase = "Build" THEN Append(a0, "--tests") ELSE a0
        a2 == IF package_name.some
              THEN Append(Append(a1, "--package"), package_name.val)
              ELSE Append(a1, "--workspace")
        a3 == a2 \o options.additional_cargo_args
    IN  IF phase = "Test" THEN a3 \o options.additional_cargo_test_args ELSE a3

\* strings a caller may pass as package name or as extra arguments
ArgStrings == {"--release", "--lib", "--workspace", "--package"}

PackageNames == {"pkg", "--workspace"}

CargoEnvValues == {None, Some("/toolchain/bin/cargo")}

ArgvInit ==
    /\ RunIdle
    /\ interrupted = FALSE
    /\ \E p \in {None} \cup {Some(n) : n \in PackageNames}, ph \in Phases,
          ca \in SeqsUpTo(ArgStrings, MaxArgs), ta \in SeqsUpTo(ArgStrings, MaxArgs),
          ce \in CargoEnvValues :
          call = [fn |-> "cargo_argv", done |-> FALSE, package_name |-> p, phase |-> ph,
                  options |-> [additional_cargo_args |-> ca,
                               additional_cargo_test_args |-> ta],
                  CARGO |-> ce]
    /\ argv = <<>>
    /\ flags = <<>>
    /\ sources = <<>>
    /\ files = [tag |-> "Pending", list |-> <<>>, err |-> ""]

CallCargoArgv ==
    /\ call.fn = "cargo_argv"
    /\ ~call.done
    /\ argv' = cargo_argv(call.package_name, call.phase, call.options, call.CARGO)
    /\ call' = [call EXCEPT !.done = TRUE]
    /\ UNCHANGED <<pc, child, interrupted, timeout, elapsed, process_status, log, result,
                   polled, flagAt, flags, sources, files>>

ArgvNext == CallCargoArgv

ArgvSpec == ArgvInit /\ [][ArgvNext]_vars

(***************************************************************************)
(* rustflags.  A string is a sequence of characters; US is the character   *)
(* 0x1f.                                                                   *)
(***************************************************************************)
US == "\\x1f"

CapLints == <<"-", "-", "c", "a", "p", "-", "l", "i", "n", "t", "s", "=",
              "a", "l", "l", "o", "w">>

Unset == [some |-> FALSE, val |-> <<>>]

\* str::split(delimiter): the fields between the delimiters, empty ones included
RECURSIVE Split(_, _)
Split(str, d) ==
    IF \A i \in 1..Len(str) : str[i] # d
    THEN <<str>>
    ELSE LET i == CHOOSE k \in 1..Len(str) :
                      str[k] = d /\ \A j \in 1..(k - 1) : str[j] # d
         IN  <<SubSeq(str, 1, i - 1)>> \o Split(SubSeq(str, i + 1, Len(str)), d)

\* [String]::join(separator)
RECURSIVE Join(_, _)
Join(fields, sep) ==
    IF fields = <<>> THEN <<>>
    ELSE IF Len(fields) = 1 THEN fields[1]
    ELSE fields[1] \o sep \o Join(Tail(fields), sep)

\* a variant that looks at RUSTFLAGS first
rustflags_plain_first(encoded, plain) ==
    LET v == IF plain.some THEN Split(plain.val, " ")
             ELSE IF encoded.some THEN Split(encoded.val, US)
             ELSE <<>>
    IN  Join(Append(v, CapLints), <<US>>)

\* rustflags(), given env::var_os of CARGO_ENCODED_RUSTFLAGS and of RUSTFLAGS
rustflags(encoded, plain) ==
    LET v == IF encoded.some THEN Split(encoded.val, US)
             ELSE IF plain.some THEN Split(plain.val, " ")
             ELSE <<>>
    IN  Join(Append(v, CapLints), <<US>>)

\* the characters the two variables are made of
EnvChars == {"-", "W", " ", US}

EnvValues == {Unset} \cup {Some(v) : v \in SeqsUpTo(EnvChars, MaxStr)}

FlagsInit ==
    /\ RunIdle
    /\ interrupted = FALSE
    /\ \E e \in EnvValues, r \in EnvValues :
          call = [fn |-> "rustflags", done |-> FALSE,
                  CARGO_ENCODED_RUSTFLAGS |-> e, RUSTFLAGS |-> r]
    /\ argv = <<>>
    /\ flags = <<>>
    /\ sources = <<>>
    /\ files = [tag |-> "Pending", list |-> <<>>, err |-> ""]

CallRustflags ==
    /\ call.fn = "rustflags"
    /\ ~call.done
    /\ flags' = rustflags(call.CARGO_ENCODED_RUSTFLAGS, call.RUSTFLAGS)
    /\ call' = [call EXCEPT !.done = TRUE]
    /\ UNCHANGED <<pc, child, interrupted, timeout, elapsed, process_status, log, result,
                   polled, flagAt, argv, sources, files>>

FlagsNext == CallRustflags

FlagsSpec == FlagsInit /\ [][FlagsNext]_vars

(***************************************************************************)
(* cargo_root_files.  A path is the sequence of its components; the kind   *)
(* of a target is a sequence of strings, each a sequence of characters.    *)
(***************************************************************************)
KindLib == <<"l", "i", "b">>

KindRlib == <<"r", "l", "i", "b">>

KindCdylib == <<"c", "d", "y", "l", "i", "b">>

KindBin == <<"b", "i", "n">>

KindTest == <<"t", "e", "s", "t">>

KindBench == <<"b", "e", "n", "c", "h">>

KindExample == <<"e", "x", "a", "m", "p", "l", "e">>

\* str::ends_with
EndsWith(str, suffix) ==
    /\ Len(str) >= Len(suffix)
    /\ SubSeq(str, Len(str) - Len(suffix) + 1, Len(str)) = suffix

\* a variant that compares the kind with "lib" instead of its end
should_mutate_target_exact(target) ==
    \E i \in 1..Len(target.kind) : target.kind[i] = KindLib \/ target.kind[i] = KindBin

\* target.kind.iter().any(|k| k.ends_with("lib") || k == "bin")
should_mutate_target(target) ==
    \E i \in 1..Len(target.kind) :
        EndsWith(target.kind[i], KindLib) \/ target.kind[i] = KindBin

\* Utf8Path::strip_prefix: the components after base, when base is a prefix
strip_prefix(path, base) ==
    IF Len(path) >= Len(base) /\ SubSeq(path, 1, Len(base)) = base
    THEN [ok |-> TRUE, relpath |-> SubSeq(path, Len(base) + 1, Len(path))]
    ELSE [ok |-> FALSE, relpath |-> <<>>]

\* the byte-wise order of the component names of the model
CompRank(c) ==
    CASE c = "a.rs" -> 1
      [] c = "b.rs" -> 2
      [] c = "src" -> 3
      [] c = "t.rs" -> 4
      [] c = "w" -> 5
      [] c = "x" -> 6

\* Ord of TreeRelativePathBuf: component by component
RECURSIVE PathLess(_, _)
PathLess(p, q) ==
    IF q = <<>> THEN FALSE
    ELSE IF p = <<>> THEN TRUE
    ELSE IF p[1] # q[1] THEN CompRank(p[1]) < CompRank(q[1])
    ELSE PathLess(Tail(p), Tail(q))

RECURSIVE InsertSorted(_, _)
InsertSorted(sorted, p) ==
    IF sorted = <<>> THEN <<p>>
    ELSE IF PathLess(p, sorted[1]) THEN <<p>> \o sorted
    ELSE <<sorted[1]>> \o InsertSorted(Tail(sorted), p)

\* Vec::sort
RECURSIVE Sort(_)
Sort(v) == IF v = <<>> THEN <<>> ELSE InsertSorted(Sort(SubSeq(v, 1, Len(v) - 1)), v[Len(v)])

\* Vec::dedup: consecutive equal elements collapse into the first
RECURSIVE Dedup(_)
Dedup(v) ==
    IF Len(v) <= 1 THEN v
    ELSE IF v[1] = v[2] THEN Dedup(Tail(v))
    ELSE <<v[1]>> \o Dedup(Tail(v))

\* the loop of direct_package_sources over the first n targets
RECURSIVE FoundIn(_, _, _)
FoundIn(workspace_root, targets, n) ==
    IF n = 0 THEN <<>>
    ELSE LET found == FoundIn(workspace_root, targets, n - 1)
             target == targets[n]
             stripped == strip_prefix(target.src_path, workspace_root)
         IN  IF should_mutate_target(target) /\ stripped.ok
             THEN Append(found, stripped.relpath)
             ELSE found

direct_package_sources(workspace_root, package_metadata) ==
    Dedup(Sort(FoundIn(workspace_root, package_metadata.targets,
                       Len(package_metadata.targets))))

Root == <<"w">>

\* the targets a package of the model may have
TargetChoices ==
    { [kind |-> <<KindBin>>, src_path |-> <<"w", "src", "b.rs">>],
      [kind |-> <<KindCdylib, KindRlib>>, src_path |-> <<"w", "a.rs">>],
      [kind |-> <<KindTest>>, src_path |-> <<"w", "t.rs">>],
      [kind |-> <<KindBench>>, src_path |-> <<"w", "t.rs">>],
      [kind |-> <<KindExample>>, src_path |-> <<"w", "t.rs">>],
      [kind |-> <<KindLib>>, src_path |-> <<"x", "a.rs">>] }

PackageName(i) == IF i = 1 THEN "p1" ELSE IF i = 2 THEN "p2" ELSE IF i = 3 THEN "p3" ELSE "p4"

NoPackage == [name |-> "", targets |-> <<>>]

FilesPending(r) == [tag |-> "Pending", list |-> r, err |-> ""]

FilesOk(list) == [tag |-> "Ok", list |-> list, err |-> ""]

FilesErr(e) == [tag |-> "Err", list |-> <<>>, err |-> e]

\* cargo_root_files is called; files.list is its local r
DiscoverInit ==
    /\ RunIdle
    /\ interrupted \in BOOLEAN
    /\ call = [fn |-> "cargo_root_files", at |-> "start", source_root_path |-> Root,
               total |-> 0, n |-> 0, package |-> NoPackage]
    /\ argv = <<>>
    /\ flags = <<>>
    /\ sources = <<>>
    /\ files = FilesPending(<<>>)

\* check_interrupted()?; metadata = ...exec().context("run cargo metadata")?;
\* check_interrupted()?; let mut r = Vec::new();
QueryMetadata ==
    /\ call.fn = "cargo_root_files"
    /\ call.at = "start"
    /\ IF check_interrupted(interrupted).tag = "Err"
       THEN /\ files' = FilesErr("Interrupted")
            /\ call' = [call EXCEPT !.at = "done"]
       ELSE \/ /\ files' = FilesErr("Metadata")
               /\ call' = [call EXCEPT !.at = "done"]
            \/ \E total \in 0..MaxPackages :
                  /\ call' = [call EXCEPT !.at = "walk", !.total = total]
                  /\ UNCHANGED files
    /\ UNCHANGED <<pc, child, interrupted, timeout, elapsed, process_status, log, result,
                   polled, flagAt, argv, flags, sources>>

\* one iteration of the loop over metadata.workspace_packages(): the
\* sources of the next package, then one SourceFile pushed for each of them
WalkPackage ==
    /\ call.fn = "cargo_root_files"
    /\ call.at = "walk"
    /\ call.n < call.total
    /\ \E targets \in SeqsUpTo(TargetChoices, MaxTargets) :
          LET package_metadata == [name |-> PackageName(call.n + 1), targets |-> targets]
              paths == direct_package_sources(call.source_root_path, package_metadata)
              pushed == [k \in 1..Len(paths) |->
                            [path |-> paths[k], package |-> package_metadata.name]]
              walked == [call EXCEPT !.n = call.n + 1, !.package = package_metadata]
          IN  /\ sources' = Append(sources, paths)
              /\ IF paths # <<>> /\ check_interrupted(interrupted).tag = "Err"
                 THEN /\ files' = FilesErr("Interrupted")
                      /\ call' = [walked EXCEPT !.at = "done"]
                 ELSE \/ /\ files' = FilesPending(files.list \o pushed)
                         /\ call' = walked
                      \/ /\ paths # <<>>
                         /\ files' = FilesErr("SourceFile")
                         /\ call' = [walked EXCEPT !.at = "done"]
    /\ UNCHANGED <<pc, child, interrupted, timeout, elapsed, process_status, log, result,
                   polled, flagAt, argv, flags>>

\* Ok(r)
ReturnFiles ==
    /\ call.fn = "cargo_root_files"
    /\ call.at = "walk"
    /\ call.n = call.total
    /\ files' = FilesOk(files.list)
    /\ call' = [call EXCEPT !.at = "done"]
    /\ UNCHANGED <<pc, child, interrupted, timeout, elapsed, process_status, log, result,
                   polled, flagAt, argv, flags, sources>>

\* a signal handler sets the flag while cargo_root_files runs
InterruptDiscovery ==
    /\ call.fn = "cargo_root_files"
    /\ call.at # "done"
    /\ ~interrupted
    /\ interrupted' = TRUE
    /\ UNCHANGED <<pc, child, timeout, elapsed, process_status, log, result,
                   polled, flagAt, call, argv, flags, sources, files>>

DiscoverNext ==
    \/ QueryMetadata
    \/ WalkPackage
    \/ ReturnFiles
    \/ InterruptDiscovery

DiscoverSpec == DiscoverInit /\ [][DiscoverNext]_vars

(***************************************************************************)
(* Properties of run_cargo                                                 *)
(***************************************************************************)
Last(s) == s[Len(s)]

\* poll has reported a terminal status (the loop was left by break)
TerminalPolled == polled # <<>> /\ Last(polled).tag = "Some"

FlagSetWhilePolling == flagAt = [pc |-> "poll", child |-> "running"]

\* C1: when the flag is set after poll returned a successful exit status and
\* before check_interrupted() is called, run_cargo returns the Interrupted
\* error, never the successful status.
C1_CancelAfterExit ==
    (/\ pc = "done"
     /\ TerminalPolled
     /\ Last(polled).status = Exited(0)
     /\ flagAt.pc \in {"log", "check"})
    => result = Err("Interrupted")

C1_Witness ==
    /\ pc = "done"
    /\ TerminalPolled
    /\ Last(polled).status = Exited(0)
    /\ flagAt.pc \in {"log", "check"}
    /\ result = Err("Interrupted")

\* C8: when the flag is not set at the check after termination, run_cargo
\* returns Ok with the terminal status poll reported, unchanged, be it
\* exited(code), signalled(signal) or timed-out.
C8_TerminalStatusReturned ==
    (pc = "done" /\ TerminalPolled /\ ~interrupted)
    => /\ result = Ok(Last(polled).status)
       /\ result.status.kind \in {"Exited", "Signalled", "TimedOut"}
       /\ \A i \in 1..(Len(polled) - 1) : polled[i] = PollNone

C8_Witness ==
    /\ pc = "done"
    /\ ~interrupted
    /\ TerminalPolled
    /\ Last(polled).status = TimedOut
    /\ result = Ok(TimedOut)

\* C9 as stated: once the flag is set while run_cargo polls a running child,
\* the outcome of run_cargo is the Interrupted error.
C9_OutcomeIsInterrupted ==
    (pc = "done" /\ FlagSetWhilePolling) => result = Err("Interrupted")

\* C9 amended: once the flag is set while run_cargo polls a running child,
\* run_cargo eventually returns, and what it returns is never a successful
\* status: it is the Interrupted error, or the error a poll call failed with.
C9_CancelWhilePolling ==
    /\ [](pc = "done" /\ FlagSetWhilePolling
            => /\ result.tag = "Err"
               /\ (result.err = "Interrupted" \/ result = Last(polled)))
    /\ (FlagSetWhilePolling ~> pc = "done")

C9_Witness ==
    /\ pc = "done"
    /\ FlagSetWhilePolling
    /\ TerminalPolled
    /\ result = Err("Interrupted")

\* C10: a run in which poll reports a terminal status appends exactly one
\* summary line, after the status is observed and before the flag is
\* checked, also when the outcome is Interrupted; a run in which the start
\* or a poll fails appends none and returns the error.
C10_OneSummaryLine ==
    /\ pc \in {"start", "poll", "log"} => log = <<>>
    /\ pc = "check" => /\ Len(log) = 1
                       /\ log[1].status = Last(polled).status
                       /\ result = Pending
    /\ pc = "done" => IF TerminalPolled
                      THEN Len(log) = 1 /\ log[1].status = Last(polled).status
                      ELSE log = <<>> /\ result.tag = "Err"

C10_Witness ==
    /\ pc = "done"
    /\ TerminalPolled
    /\ interrupted
    /\ result = Err("Interrupted")
    /\ Len(log) = 1

(***************************************************************************)
(* Properties of cargo_argv                                                *)
(***************************************************************************)
ArgvReturned == call.fn = "cargo_argv" /\ call.done

ScopeFlags == {"--workspace", "--package"}

\* the extra arguments cargo_argv appends for the phase of the call
AppliedExtras ==
    Range(call.options.additional_cargo_args)
    \cup (IF call.phase = "Test" THEN Range(call.options.additional_cargo_test_args) ELSE {})

\* C2: argv is exactly the cargo binary, the subcommand of the phase,
\* "--tests" iff the phase is Check or Build, "--package" and the name or
\* else "--workspace", the every-invocation arguments in order, and, iff
\* the phase is Test, the test-only arguments in order; nothing else.
C2_ArgvExact ==
    ArgvReturned =>
        LET t == IF call.phase \in {"Check", "Build"} THEN 1 ELSE 0
            s == IF call.package_name.some THEN 2 ELSE 1
            every == call.options.additional_cargo_args
            test == call.options.additional_cargo_test_args
            x == IF call.phase = "Test" THEN Len(test) ELSE 0
        IN  /\ Len(argv) = 2 + t + s + Len(every) + x
            /\ argv[1] = (IF call.CARGO.some THEN call.CARGO.val ELSE "cargo")
            /\ argv[2] = (IF call.phase = "Check" THEN "check"
                          ELSE IF call.phase = "Build" THEN "build" ELSE "test")
            /\ (t = 1 => argv[3] = "--tests")
            /\ IF call.package_name.some
               THEN argv[3 + t] = "--package" /\ argv[4 + t] = call.package_name.val
               ELSE argv[3 + t] = "--workspace"
            /\ \A i \in 1..Len(every) : argv[2 + t + s + i] = every[i]
            /\ \A i \in 1..x : argv[2 + t + s + Len(every) + i] = test[i]

C2_Witness ==
    /\ ArgvReturned
    /\ call.phase = "Test"
    /\ call.package_name = Some("pkg")
    /\ call.options.additional_cargo_args = <<"--release">>
    /\ call.options.additional_cargo_test_args = <<"--lib", "--release">>
    /\ argv = <<"cargo", "test", "--package", "pkg", "--release", "--lib", "--release">>

\* C3 as stated: whatever the package name and the extra arguments, argv
\* never holds "--workspace" together with "--package".
C3_NeverBothScopes ==
    ArgvReturned => ~(ScopeFlags \subseteq Range(argv))

\* C3 amended: cargo_argv itself adds exactly one of "--package" and
\* "--workspace"; argv holds both only when the package name or an extra
\* argument appended for the phase is itself one of the two flags.
C3_BothScopesOnlyFromCaller ==
    ArgvReturned =>
        LET t == IF call.phase \in {"Check", "Build"} THEN 1 ELSE 0
            s == IF call.package_name.some THEN 2 ELSE 1
            builtin == SubSeq(argv, 1, 2 + t) \o SubSeq(argv, 3 + t, 3 + t)
            passed == AppliedExtras
                      \cup (IF call.package_name.some THEN {call.package_name.val} ELSE {})
        IN  /\ Cardinality(Range(builtin) \cap ScopeFlags) = 1
            /\ Range(SubSeq(argv, 3 + t + s, Len(argv))) = AppliedExtras
            /\ (ScopeFlags \subseteq Range(argv) => passed \cap ScopeFlags # {})

C3_Witness ==
    /\ ArgvReturned
    /\ call.package_name = Some("pkg")
    /\ call.options.additional_cargo_args = <<"--release", "--lib">>
    /\ "--package" \in Range(argv)
    /\ "--workspace" \notin Range(argv)

(***************************************************************************)
(* Properties of rustflags                                                 *)
(***************************************************************************)
FlagsReturned == call.fn = "rustflags" /\ call.done

\* str with every character from replaced by to
Replace(str, from, to) == [i \in 1..Len(str) |-> IF str[i] = from THEN to ELSE str[i]]

\* the flag tokens of the variable rustflags() reads
InputTokens ==
    IF call.CARGO_ENCODED_RUSTFLAGS.some THEN Split(call.CARGO_ENCODED_RUSTFLAGS.val, US)
    ELSE IF call.RUSTFLAGS.some THEN Split(call.RUSTFLAGS.val, " ")
    ELSE <<>>

\* C4: with the encoded variable set the result is its fields followed by
\* the lint cap (the encoded text, a delimiter, the cap); otherwise with the
\* plain variable set it is its space-separated tokens followed by the cap
\* (the plain text with every space turned into a delimiter, a delimiter,
\* the cap); otherwise it is the cap alone.  The last field is the cap.
C4_PriorityAndCap ==
    FlagsReturned =>
        /\ flags = (IF call.CARGO_ENCODED_RUSTFLAGS.some
                    THEN call.CARGO_ENCODED_RUSTFLAGS.val \o <<US>> \o CapLints
                    ELSE IF call.RUSTFLAGS.some
                    THEN Replace(call.RUSTFLAGS.val, " ", US) \o <<US>> \o CapLints
                    ELSE CapLints)
        /\ Last(Split(flags, US)) = CapLints

C4_Witness ==
    /\ FlagsReturned
    /\ call.CARGO_ENCODED_RUSTFLAGS = Some(<<"-", "W", US>>)
    /\ call.RUSTFLAGS = Some(<<"W", " ", "W">>)
    /\ Split(flags, US) = << <<"-", "W">>, <<>>, CapLints >>

\* C5: for every value of the two variables, 0x1f occurs in the result only
\* between fields: splitting the result on 0x1f gives exactly the input
\* tokens followed by the lint cap.
C5_DelimiterOnlySeparates ==
    FlagsReturned => Split(flags, US) = Append(InputTokens, CapLints)

(***************************************************************************)
(* Properties of cargo_root_files and direct_package_sources               *)
(***************************************************************************)
FilesReturned == call.fn = "cargo_root_files" /\ call.at = "done"

LibOrBinKinds == {KindLib, KindRlib, KindCdylib, KindBin}

\* a target of a library or executable kind
Qualifies(target) == Range(target.kind) \cap LibOrBinKinds # {}

Suffixes(path) == {SubSeq(path, k, Len(path)) : k \in 1..(Len(path) + 1)}

\* C6: the list cargo_root_files returns is sorted by relative path and no
\* two of its entries have the same relative path, also when two packages
\* name the same source path.
C6_SortedNoDuplicates ==
    (FilesReturned /\ files.tag = "Ok") =>
        \A i \in 1..Len(files.list), j \in 1..Len(files.list) :
            i < j => PathLess(files.list[i].path, files.list[j].path)

\* C7: for the package just walked, the paths direct_package_sources
\* returned are exactly the root-relative forms of the source paths of the
\* targets of a library or executable kind that lie beneath the root; test,
\* bench and example targets are never recorded, and a target outside the
\* root is skipped without failing the scan.
C7_ExactlyQualifyingTargets ==
    (call.fn = "cargo_root_files" /\ call.n > 0) =>
        LET targets == Range(call.package.targets)
            found == Range(sources[call.n])
        IN  /\ Len(sources) = call.n
            /\ \A p \in found : \E t \in targets : Qualifies(t) /\ t.src_path = Root \o p
            /\ \A t \in targets : \A p \in Suffixes(t.src_path) :
                  (Qualifies(t) /\ t.src_path = Root \o p) => p \in found

C7_Witness ==
    /\ FilesReturned
    /\ files.tag = "Ok"
    /\ call.n = 2
    /\ call.package.targets =
           << [kind |-> <<KindLib>>, src_path |-> <<"x", "a.rs">>],
              [kind |-> <<KindCdylib, KindRlib>>, src_path |-> <<"w", "a.rs">>] >>
    /\ sources = << <<>>, << <<"a.rs">> >> >>
    /\ files.list = << [path |-> <<"a.rs">>, package |-> "p2"] >>

====
